---- MODULE Spec2Model ----
(***************************************************************************)
(* Model of the order workflow of tienda-clase: the pedidos model          *)
(* (backend/models/pedidos.model.js), the JWT middleware                   *)
(* (backend/middlewares/auth.middleware.js), the pedidos router            *)
(* (backend/routes/pedidos.routes.js) and the auth controller              *)
(* (controllers/auth.controller.js).                                       *)
(*                                                                         *)
(* Every `await pool.query(...)` is one step of the store: MySQL runs each *)
(* statement in autocommit mode (the code opens no transaction), so the    *)
(* rows of a statement are visible to every other request as soon as the   *)
(* statement ends.  The JavaScript between two awaits runs to completion   *)
(* and is part of the step that resumes it.                                *)
(***************************************************************************)
EXTENDS Integers, Sequences, FiniteSets, TLC

\* ------------------------------------------------------------------ bounds
\* longest `productos` array of a request
MaxLen == 2

\* seconds the clock of the store advances while orders are listed
MaxReloj == 1

\* rows of pedidos after which no finished invocation of crear gives its place
\* to a new one
MaxPedidos == 3

\* how far below zero the quantity of a cart item is followed
MaxNegativas == 2

\* the invocations of crear (the requests) that may be in flight together
Invs == {1, 2}

\* ------------------------------------------------------------ the database
\* productos table: id -> stock (the order workflow only names its ids)
Stock == (1 :> 2) @@ (2 :> 1)

\* the cliente_id of a direct call of crear
IdsCliente == {1}

\* one element of the `productos` array of a request: an existing product
\* within its stock, an existing product beyond its stock, a product id that
\* is not in the table, and a quantity that is not positive
LineasPedidas ==
    { [producto_id |-> 1, cantidad |-> 2],
      [producto_id |-> 2, cantidad |-> 2],
      [producto_id |-> 9, cantidad |-> 1],
      [producto_id |-> 1, cantidad |-> 0] }

\* every `productos` array of at most MaxLen elements
ListasProductos == UNION {[1..n -> LineasPedidas] : n \in 0..MaxLen}

\* -------------------------------------------------------------- the tokens
\* what jwt.verify finds in each token a request may carry: the cliente_id of
\* its payload, whether it is signed with JWT_SECRET, whether its nbf claim is
\* in the future, whether its exp claim is in the past
TokenInfo ==
    [t1   |-> [cliente_id |-> 1, firma |-> TRUE,  noActivo |-> FALSE, expirado |-> FALSE],
     t2   |-> [cliente_id |-> 2, firma |-> TRUE,  noActivo |-> FALSE, expirado |-> FALSE],
     tExp |-> [cliente_id |-> 1, firma |-> TRUE,  noActivo |-> FALSE, expirado |-> TRUE],
     tMal |-> [cliente_id |-> 2, firma |-> FALSE, noActivo |-> FALSE, expirado |-> FALSE],
     tNbf |-> [cliente_id |-> 1, firma |-> TRUE,  noActivo |-> TRUE,  expirado |-> FALSE]]

Tokens == DOMAIN TokenInfo

\* The Authorization header is modelled by the array that split(" ") makes of
\* it: a string and the non-empty sequence of its space-free fields determine
\* each other ("Bearer  t1", with two spaces, is <<"Bearer", "", "t1">>).
\* <<>> is the absent header (undefined), <<"">> the empty string.
Palabras == {"Bearer", "Basic", ""}

Cabeceras ==
    {<<>>}
    \cup {<<a>> : a \in Palabras \cup Tokens}
    \cup {<<a, b>> : a \in Palabras \cup {"t1"}, b \in Tokens \cup {""}}
    \cup {<<"Bearer", b, c>> : b \in {"", "t1", "tMal"}, c \in {"t1", "x"}}

VARIABLES
    esquemaPK,  \* TRUE: pedidos_productos has PRIMARY KEY (pedido_id, producto_id)
                \* and no id column (README); FALSE: it has an AUTO_INCREMENT id
                \* (header comment of pedidos.model.js)
    pedidos,    \* table pedidos, in insertion order
    lineas,     \* table pedidos_productos, in insertion order
    inv,        \* one invocation of crear per slot
    pet,        \* one HTTP request to the pedidos router per slot
    tablaProductos, \* table productos: id -> stock
    reloj,      \* CURRENT_TIMESTAMP of the store, in seconds
    consulta,   \* the last call of obtenerPedidosDeCliente
    clientes,   \* table clientes, in insertion order
    aut,        \* one HTTP request to the auth controller per slot
    resProductos, \* the last answer of GET /api/productos
    estado,     \* the client (app.js): the global `estado`
    localStorage, \* the client: the entries 'token' and 'user'
    llamada,    \* the client: the last call of one of its functions
    vuelo       \* the client: the request of crearPedido that awaits its answer

vars == <<esquemaPK, pedidos, lineas, inv, pet, tablaProductos, reloj,
          consulta, clientes, aut, resProductos, estado, localStorage,
          llamada, vuelo>>

\* what the order workflow leaves alone, and what the auth controller and the
\* listing leave alone
varsListado == <<reloj, consulta>>
varsAuth == <<clientes, aut>>
varsPedidos == <<esquemaPK, pedidos, lineas, inv, pet, tablaProductos>>
varsCliente == <<estado, localStorage, llamada, vuelo>>

\* ------------------------------------------------------------ pure helpers
\* Array.prototype.reduce((total, producto) => total + producto.cantidad, 0)
RECURSIVE ReduceCantidad(_, _)
ReduceCantidad(productos, total) ==
    IF productos = <<>> THEN total
    ELSE ReduceCantidad(Tail(productos), total + Head(productos).cantidad)

\* a mutated total: the number of product types instead of the units
TotalProductosTipos(productos) == Len(productos)

\* crear, step 3: the total of the order
TotalProductos(productos) == ReduceCantidad(productos, 0)

\* a mutated insertId: the store hands out the same id again
InsertIdRepetido(tabla) == 1

\* result.insertId of an INSERT into a table with an AUTO_INCREMENT id (the
\* tables only grow here, and a rejected INSERT is taken not to use up an id)
InsertId(tabla) == Len(tabla) + 1

\* a mutated header row: the owner is not the caller's clienteId
FilaPedidoAjena(id, clienteId, fecha) ==
    [id |-> id, cliente_id |-> 1, estado |-> "pendiente", fecha |-> fecha]

\* crearPedido: the row INSERT INTO pedidos (cliente_id) VALUES (?) stores;
\* estado and fecha take the column defaults ('pendiente', CURRENT_TIMESTAMP)
FilaPedido(id, clienteId, fecha) ==
    [id |-> id, cliente_id |-> clienteId, estado |-> "pendiente", fecha |-> fecha]

\* a mutated line row: the line is filed under the first order
FilaLineaAjena(id, pedidoId, productoId, cantidad) ==
    [id |-> id, pedido_id |-> 1, producto_id |-> productoId,
     cantidad |-> cantidad]

\* agregarProductoAPedido: the row the INSERT stores; id is result.insertId,
\* which is 0 for a table without an AUTO_INCREMENT column
FilaLinea(id, pedidoId, productoId, cantidad) ==
    [id |-> id, pedido_id |-> pedidoId, producto_id |-> productoId,
     cantidad |-> cantidad]

\* the rows of pedidos_productos of one order, in insertion order
LineasDe(pedidoId) == SelectSeq(lineas, LAMBDA l : l.pedido_id = pedidoId)

\* the units of a product in the rows of pedidos_productos
RECURSIVE UnidadesEn(_, _)
UnidadesEn(filas, productoId) ==
    IF filas = <<>> THEN 0
    ELSE (IF Head(filas).producto_id = productoId THEN Head(filas).cantidad ELSE 0)
         + UnidadesEn(Tail(filas), productoId)

\* a mutated schema: the store takes no line of a product whose stock is
\* already committed
LineaConStock(pedidoId, productoId) ==
    /\ productoId \in DOMAIN tablaProductos
    /\ UnidadesEn(lineas, productoId) < tablaProductos[productoId]

\* the store accepts the line: FOREIGN KEY (producto_id) REFERENCES productos
\* and, with the README schema, PRIMARY KEY (pedido_id, producto_id)
LineaAceptada(pedidoId, productoId) ==
    /\ productoId \in DOMAIN tablaProductos
    /\ esquemaPK =>
         \A k \in 1..Len(lineas) :
            ~(lineas[k].pedido_id = pedidoId /\ lineas[k].producto_id = productoId)

\* a mutated call: the quantity is read from a field the client chose to send
ArgumentosDelCliente(pedidoId, producto) ==
    [pedidoId |-> pedidoId, productoId |-> producto.producto_id,
     cantidad |-> IF "stock" \in DOMAIN producto THEN producto.stock
                  ELSE producto.cantidad]

\* crear: the arguments of agregarProductoAPedido for one element of
\* `productos`; no other field of the element is read
ArgumentosLinea(pedidoId, producto) ==
    [pedidoId |-> pedidoId, productoId |-> producto.producto_id,
     cantidad |-> producto.cantidad]

\* a mutated line insert: the units of the line are taken off the stock
ProductosDescontados(tabla, productoId, cantidad) ==
    [tabla EXCEPT ![productoId] = @ - cantidad]

\* agregarProductoAPedido: the table productos after the line is stored; the
\* function sends one INSERT INTO pedidos_productos and no UPDATE
ProductosTrasLinea(tabla, productoId, cantidad) == tabla

\* ----------------------------------------------------------- crear's state
SinResultado ==
    [id |-> 0, cliente_id |-> 0, estado |-> "", productos |-> <<>>,
     total_productos |-> 0]

InvLibre ==
    [pc |-> "libre", cliente_id |-> 0, productos |-> <<>>, pedido |-> 0,
     productosAgregados |-> <<>>, resultado |-> SinResultado, error |-> "",
     intentos |-> 0]

\* req.user before the middleware sets it
SinUsuario == [cliente_id |-> 0, id |-> 0]

PetLibre ==
    [pc |-> "libre", ruta |-> "", authorization |-> <<>>, productos |-> <<>>,
     user |-> SinUsuario, nextLlamadas |-> 0, status |-> 0, mensaje |-> ""]

\* crear({cliente_id, productos}) up to its first await: crearPedido has sent
\* the INSERT of the header
LlamadaCrear(clienteId, productos) ==
    [InvLibre EXCEPT !.pc = "cabecera", !.cliente_id = clienteId,
                     !.productos = productos]

\* crear returns: steps 3 of the function, run in the turn that resumes the
\* last await
Devolver(i, agregados) ==
    [i EXCEPT !.pc = "devuelto",
              !.productosAgregados = agregados,
              !.resultado = [id |-> i.pedido, cliente_id |-> i.cliente_id,
                             estado |-> "pendiente", productos |-> agregados,
                             total_productos |-> TotalProductos(i.productos)]]

\* a mutated catch: crear swallows the error and sends the statement again
Reintentar(i) == i

\* crear's catch: console.error and `throw error`, the store's error unchanged
Lanzar(i) == [i EXCEPT !.pc = "lanzado", !.error = "ErrorDelStore"]

\* the controller's answer once crear has settled
Responder(p, i) ==
    IF p.pc # "controlador" THEN p
    ELSE IF i.pc = "devuelto" THEN [p EXCEPT !.pc = "respondida", !.status = 201]
    ELSE IF i.pc = "lanzado" THEN [p EXCEPT !.pc = "respondida", !.status = 500]
    ELSE p

\* ------------------------------------------------- obtenerPedidosDeCliente
\* the clients whose orders are listed
IdsListado == {1, 2}

\* the orders that are listed are created one call of crear after another (the
\* listing reads the pedidos table only, and every sequence of header rows
\* that interleaved calls store is stored by calls in a row as well)
InvsListado == {1}

\* the `productos` arrays of the orders that are listed
ListasListado == {<<[producto_id |-> 1, cantidad |-> 2]>>}

\* -------------------------------------------------- the auth controller
\* the fields of req.body of the requests to register and login
Nombres == {"Ana"}
Emails == {"ana@x.com", "luis@x.com"}
Passwords == {"s3cret1", "otra"}

\* no hash: the password column of no row
SinHash == [bcrypt |-> ""]

\* a mutated register: the password goes to the store as it was submitted
GuardarEnClaro(password) == [bcrypt |-> "", claro |-> password]

\* bcrypt.hash(password, 10): a value that is not the password and that only
\* bcrypt.compare relates to it (the random salt is left out)
bcryptHash(password) == [bcrypt |-> password]

\* a mutated check: `password === usuario.password`, and a plain password is
\* never equal to its hash
CompararEnClaro(password, hash) == FALSE

\* bcrypt.compare(password, usuario.password)
bcryptCompare(password, hash) == hash.bcrypt = password

\* clientes.model.js: `undefined`, what buscarPorEmail gives for no row
SinCliente == [id |-> 0, nombre |-> "", email |-> "", password |-> SinHash]

\* the row crearCliente stores
FilaCliente(id, nombre, email, hashedPassword) ==
    [id |-> id, nombre |-> nombre, email |-> email, password |-> hashedPassword]

\* clientesModel.buscarPorEmail(email): the row with that email, if any
buscarPorEmail(email) ==
    IF \E k \in 1..Len(clientes) : clientes[k].email = email
    THEN clientes[CHOOSE k \in 1..Len(clientes) : clientes[k].email = email]
    ELSE SinCliente

\* a mutated schema: the email column without its UNIQUE index
EmailSinRestriccion(email) == TRUE

\* email VARCHAR(100) UNIQUE NOT NULL: the store accepts a new row with this
\* email
EmailUnico(email) == \A k \in 1..Len(clientes) : clientes[k].email # email

\* jwt.sign({cliente_id}, process.env.JWT_SECRET, {expiresIn}): the token of
\* that payload, signed with the secret the gate verifies with and not expired
jwtSign(clienteId) ==
    CHOOSE t \in Tokens :
        TokenInfo[t] = [cliente_id |-> clienteId, firma |-> TRUE,
                        noActivo |-> FALSE, expirado |-> FALSE]

\* the answers of register and login: status and body.message
RespuestaRegistrado == [status |-> 201, message |-> "Usuario registrado exitosamente"]
RespuestaDuplicado == [status |-> 400, message |-> "El email ya esta registrado"]
RespuestaLogin == [status |-> 200, message |-> "Login exitoso"]
RespuestaEmailDesconocido == [status |-> 401, message |-> "Email o password incorrectos"]
RespuestaErrorInterno == [status |-> 500, message |-> "Error interno del servidor"]

\* a mutated answer: the wrong password has a message of its own
RespuestaPasswordDistinta == [status |-> 401, message |-> "Password incorrecto"]

\* login, the answer to a password that does not match
RespuestaPasswordInvalido == [status |-> 401, message |-> "Email o password incorrectos"]

\* no request to the auth controller in the slot
AutLibre ==
    [pc |-> "libre", op |-> "", nombre |-> "", email |-> "", password |-> "",
     hashedPassword |-> SinHash, usuario |-> SinCliente, status |-> 0,
     message |-> "", token |-> "", usuarioId |-> 0]

\* no call of obtenerPedidosDeCliente yet
SinConsulta == [pc |-> "libre", cliente_id |-> 0, filas |-> <<>>, error |-> ""]

\* a mutated SELECT: the WHERE clause is missing
FilasDeTodos(clienteId) == {pedidos[k] : k \in 1..Len(pedidos)}

\* WHERE cliente_id = ?: the rows of pedidos the SELECT matches
FilasDeCliente(clienteId) ==
    {pedidos[k] : k \in {j \in 1..Len(pedidos) : pedidos[j].cliente_id = clienteId}}

\* ORDER BY fecha DESC
OrdenFechaDesc(filas) ==
    \A a, b \in 1..Len(filas) : a < b => filas[a].fecha >= filas[b].fecha

\* the results the SELECT may give: the matching rows, each once, by
\* non-increasing fecha; the store chooses the order of rows of equal fecha
ResultadosSelect(clienteId) ==
    LET S == FilasDeCliente(clienteId)
    IN {f \in [1..Cardinality(S) -> S] :
            /\ \A a, b \in 1..Cardinality(S) : a # b => f[a] # f[b]
            /\ OrdenFechaDesc(f)}

\* a mutated return: a client without orders is an error
DevolverONoEncontrado(clienteId, filas) ==
    IF filas = <<>>
    THEN [pc |-> "lanzado", cliente_id |-> clienteId, filas |-> <<>>,
          error |-> "NoEncontrado"]
    ELSE [pc |-> "devuelto", cliente_id |-> clienteId, filas |-> filas,
          error |-> ""]

\* `return rows`
DevolverFilas(clienteId, filas) ==
    [pc |-> "devuelto", cliente_id |-> clienteId, filas |-> filas, error |-> ""]

\* pool.query rejects and, with no catch, so does obtenerPedidosDeCliente
LanzarConsulta(clienteId) ==
    [pc |-> "lanzado", cliente_id |-> clienteId, filas |-> <<>>,
     error |-> "ErrorDelStore"]

\* ------------------------------------------------------ GET /api/productos
\* no answer yet
SinRespuesta == [status |-> 0, message |-> "", error |-> "", total |-> 0]

\* error.message of the error a rejected pool.query throws: the text of the
\* store, which names the statement, the table or the column that failed
MensajeDelStore == "ER_NO_SUCH_TABLE: Table 'tienda.productos' doesn't exist"

\* getProductos, try: 200 with the number of rows in the message
RespuestaProductos(productos) ==
    [status |-> 200, message |-> "Se encontraron productos", error |-> "",
     total |-> Cardinality(DOMAIN productos)]

\* getProductos, catch: 500, and the body carries error.message
RespuestaErrorProductos(error) ==
    [status |-> 500, message |-> "Error interno del servidor",
     error |-> error, total |-> 0]

\* ------------------------------------------------------------- server.js
\* app.use(path, router): the paths a router is mounted on
RutasMontadas == {"/api/productos", "/api/auth"}

\* the two routes of routes/pedidos.routes.js under the path the README
\* documents for them
RutasPedidos == {"POST /api/pedidos", "GET /api/pedidos/mis-pedidos"}

\* the mount path a route of the pedidos router would need
PrefijoDe(ruta) == IF ruta \in RutasPedidos THEN "/api/pedidos" ELSE ""

\* req.body.productos of requests that are not the client's: the same line
\* alone, and with a price, a name and a stock of the sender's choice
ListasCampos ==
    {<<[producto_id |-> 1, cantidad |-> 1]>>,
     <<[producto_id |-> 1, cantidad |-> 1, precio |-> 0, nombre |-> "x",
        stock |-> 2]>>,
     <<[producto_id |-> 2, cantidad |-> 1, precio |-> 0, nombre |-> "x",
        stock |-> 2]>>}

\* the Authorization headers of the requests to the app: none, and a token
\* that verifies
CabecerasServidor == {<<>>, <<"Bearer", "t1">>}

\* express answers a request no middleware or router took: 404
RespuestaSinRuta(p) ==
    [p EXCEPT !.pc = "respondida", !.status = 404,
              !.mensaje = "Cannot " \o p.ruta]

\* ------------------------------------------------------- client (app.js)
\* const estado = {usuario: null, token: null, productos: [], carrito: []};
\* null is 0 for the user and "" for the token
EstadoInicial ==
    [usuario |-> 0, token |-> "", productos |-> <<>>, carrito |-> <<>>]

\* localStorage without the entries 'token' and 'user': getItem gives null,
\* which is "" here (the empty string is falsy as well)
SinSesion == [token |-> "", user |-> ""]

\* a value of estado.usuario that is neither null nor a user: the `false` that
\* JSON.parse makes of the text "false"
Falso == -1

\* JSON.stringify(usuario) for the user object of each id, and for null
JSONstringify(usuario) ==
    IF usuario = 0 THEN "null"
    ELSE IF usuario = 1 THEN "{id:1}"
    ELSE IF usuario = 2 THEN "{id:2}"
    ELSE "false"

\* JSON.parse(texto): the value, or the SyntaxError it throws
JSONparse(texto) ==
    IF texto = "{id:1}" THEN [lanza |-> FALSE, valor |-> 1]
    ELSE IF texto = "{id:2}" THEN [lanza |-> FALSE, valor |-> 2]
    ELSE IF texto = "null" THEN [lanza |-> FALSE, valor |-> 0]
    ELSE IF texto = "false" THEN [lanza |-> FALSE, valor |-> Falso]
    ELSE [lanza |-> TRUE, valor |-> 0]

\* the truth value JavaScript gives to a value of estado.usuario
Verdadero(valor) == valor # 0 /\ valor # Falso

\* the last call of a function of the client: its name and arguments, whether
\* a user was logged in and how many items the cart had when it was made, and
\* the productos of the body crearPedido sent
SinLlamada ==
    [op |-> "", productoId |-> 0, cantidad |-> 0, logueado |-> FALSE,
     articulos |-> 0, cuerpo |-> <<>>, resultado |-> ""]

\* crearPedido of the client is not awaiting an answer
SinVuelo == [activa |-> FALSE, cuerpo |-> <<>>]

\* the number NaN, which parseInt gives for a field without digits
NaN == -999

\* a < b of JavaScript numbers: false when an operand is NaN
Menor(a, b) == a # NaN /\ b # NaN /\ a < b

\* a + b of JavaScript numbers
Suma(a, b) == IF a = NaN \/ b = NaN THEN NaN ELSE a + b

\* the columns nombre and precio of the rows of productos
NombreProducto == (1 :> "camiseta") @@ (2 :> "gorra")
PrecioProducto == (1 :> 10) @@ (2 :> 5)

\* datos.data of GET /api/productos: the rows of obtenerTodos
Catalogo(tabla) ==
    [id \in DOMAIN tabla |->
        [id |-> id, nombre |-> NombreProducto[id],
         precio |-> PrecioProducto[id], stock |-> tabla[id]]]

\* the arguments of the calls of the cart functions: a product that is not in
\* the catalogue, and the quantity of an emptied field
ProductosCliente == {1, 2, 9}
CantidadesCliente == {1, 2, NaN}
CantidadesNuevas == {0, 1, 2, NaN}

\* how the request of crearPedido ends: respuesta.ok, an error status, or a
\* rejected fetch
ResultadosPedido == {"ok", "error", "red"}

\* datos.token and datos.usuario of the answers of login and register
SesionesCliente == {<<"t1", 1>>, <<"t2", 2>>}

\* array.findIndex(x => x.id === id), counted from 1; 0 when nothing is found
Buscar(lista, id) ==
    IF \E k \in DOMAIN lista : lista[k].id = id
    THEN CHOOSE k \in DOMAIN lista :
             lista[k].id = id /\ \A j \in DOMAIN lista : lista[j].id = id => k <= j
    ELSE 0

\* a mutated estaLogueado: everybody counts as logged in
SiempreLogueado(e) == TRUE

\* estaLogueado(): !!(estado.usuario && estado.token)
estaLogueado(e) == Verdadero(e.usuario) /\ e.token # ""

\* a mutated agregarAlCarrito: the product is pushed without looking for it
\* in the cart
EnCarritoNunca(carrito, id) == 0

\* agregarAlCarrito: estado.carrito.find(item => item.id === productoId)
EnCarrito(carrito, id) == Buscar(carrito, id)

\* agregarAlCarrito(productoId, cantidad): estado after the call
agregarAlCarrito(e, productoId, cantidad) ==
    LET p == Buscar(e.productos, productoId)
        producto == e.productos[p]
        c == EnCarrito(e.carrito, productoId)
        nuevaCantidad == Suma(e.carrito[c].cantidad, cantidad)
    IN IF ~estaLogueado(e) THEN e
       ELSE IF p = 0 THEN e
       ELSE IF Menor(producto.stock, cantidad) THEN e
       ELSE IF c # 0
       THEN IF Menor(producto.stock, nuevaCantidad) THEN e
            ELSE [e EXCEPT !.carrito[c].cantidad = nuevaCantidad]
       ELSE [e EXCEPT !.carrito =
                Append(@, [id |-> producto.id, nombre |-> producto.nombre,
                           precio |-> producto.precio, cantidad |-> cantidad,
                           stock |-> producto.stock])]

\* array.splice(index, 1)
Splice(lista, index) ==
    [k \in 1..(Len(lista) - 1) |-> IF k < index THEN lista[k] ELSE lista[k + 1]]

\* quitarDelCarrito(productoId): estado after the call
quitarDelCarrito(e, productoId) ==
    LET index == Buscar(e.carrito, productoId)
    IN IF index # 0 THEN [e EXCEPT !.carrito = Splice(@, index)] ELSE e

\* cambiarCantidad(productoId, nuevaCantidad): estado after the call
cambiarCantidad(e, productoId, nuevaCantidad) ==
    LET c == Buscar(e.carrito, productoId)
    IN IF Menor(nuevaCantidad, 1) THEN quitarDelCarrito(e, productoId)
       ELSE IF c = 0 THEN e
       ELSE IF Menor(e.carrito[c].stock, nuevaCantidad) THEN e
       ELSE [e EXCEPT !.carrito[c].cantidad = nuevaCantidad]

\* vaciarCarrito()
vaciarCarrito(e) == [e EXCEPT !.carrito = <<>>]

\* crearPedido: estado.carrito.map(item => ({producto_id: item.id,
\* cantidad: item.cantidad}))
ProductosParaPedido(carrito) ==
    [k \in 1..Len(carrito) |->
        [producto_id |-> carrito[k].id, cantidad |-> carrito[k].cantidad]]

\* guardarSesion(token, usuario): estado after the call
guardarSesion(e, token, usuario) ==
    [e EXCEPT !.token = token, !.usuario = usuario]

\* a mutated cerrarSesion: only the token is forgotten
CerrarSoloToken(e) == [e EXCEPT !.token = ""]

\* a mutated cerrarSesion: the cart is left as it is
CerrarSinVaciar(e) == [e EXCEPT !.token = "", !.usuario = 0]

\* cerrarSesion(): estado after the call
cerrarSesion(e) == [e EXCEPT !.token = "", !.usuario = 0, !.carrito = <<>>]

\* a mutated guardarSesion, the one without localStorage of the README
AlmacenSinGuardar(almacen, token, usuario) == almacen

\* guardarSesion(token, usuario): localStorage after the two setItem
AlmacenGuardado(almacen, token, usuario) ==
    [almacen EXCEPT !.token = token, !.user = JSONstringify(usuario)]

\* cargarSesionGuardada(): estado and localStorage after the call. With both
\* entries it assigns the token, parses the user and reads its nombre, which
\* throws for null; the catch calls cerrarSesion
cargarSesionGuardada(e, almacen) ==
    LET usuario == JSONparse(almacen.user)
    IN IF almacen.token # "" /\ almacen.user # ""
       THEN IF usuario.lanza \/ usuario.valor = 0
            THEN [estado |-> cerrarSesion(e), almacen |-> SinSesion,
                  resultado |-> "capturado"]
            ELSE [estado |-> [e EXCEPT !.token = almacen.token,
                                       !.usuario = usuario.valor],
                  almacen |-> almacen, resultado |-> "restaurada"]
       ELSE [estado |-> e, almacen |-> almacen, resultado |-> ""]

\* what a call leaves in `llamada`
Llamada(op, productoId, cantidad, cuerpo) ==
    [op |-> op, productoId |-> productoId, cantidad |-> cantidad,
     logueado |-> estado.usuario \notin {0, Falso} /\ estado.token # "",
     articulos |-> Len(estado.carrito), cuerpo |-> cuerpo, resultado |-> ""]

Init ==
    /\ esquemaPK = FALSE
    /\ pedidos = <<>>
    /\ lineas = <<>>
    /\ inv = [r \in Invs |-> InvLibre]
    /\ pet = [r \in Invs |-> PetLibre]
    /\ tablaProductos = Stock
    /\ reloj = 0
    /\ consulta = SinConsulta
    /\ clientes = <<>>
    /\ aut = [r \in Invs |-> AutLibre]
    /\ resProductos = SinRespuesta
    /\ estado = EstadoInicial
    /\ localStorage = SinSesion
    /\ llamada = SinLlamada
    /\ vuelo = SinVuelo

\* ----------------------------------------------------------------- crear
\* a caller invokes crear({cliente_id, productos}): the function runs up to
\* its first await, with the INSERT of the header sent to the store
Llamar(r, clienteId, productos) ==
    /\ inv[r].pc = "libre"
    /\ pet[r].pc = "libre"
    /\ inv' = [inv EXCEPT ![r] = LlamadaCrear(clienteId, productos)]
    /\ UNCHANGED <<esquemaPK, pedidos, lineas, pet, tablaProductos>>
    /\ UNCHANGED <<varsListado, varsAuth>>
    /\ UNCHANGED <<resProductos, varsCliente>>

\* the store runs the INSERT of crearPedido and crear resumes: either the
\* statement fails (constraint or any failure of the store) and crear throws,
\* or the row is committed and crear goes on to the loop, or returns when
\* `productos` is empty
InsertarCabecera(r, fallo) ==
    /\ inv[r].pc = "cabecera"
    /\ LET i == [inv[r] EXCEPT !.intentos = @ + 1]
           id == InsertId(pedidos)
           conId == [i EXCEPT !.pedido = id]
           sig == IF fallo THEN Lanzar(i)
                  ELSE IF i.productos = <<>> THEN Devolver(conId, <<>>)
                  ELSE [conId EXCEPT !.pc = "lineas"]
       IN /\ pedidos' = IF fallo THEN pedidos
                        ELSE Append(pedidos, FilaPedido(id, i.cliente_id, reloj))
          /\ inv' = [inv EXCEPT ![r] = sig]
          /\ pet' = [pet EXCEPT ![r] = Responder(pet[r], sig)]
    /\ UNCHANGED <<esquemaPK, lineas, tablaProductos>>
    /\ UNCHANGED <<varsListado, varsAuth>>
    /\ UNCHANGED <<resProductos, varsCliente>>

\* the store runs the INSERT of agregarProductoAPedido for the next element
\* of `productos` and crear resumes: it throws, goes on with the loop, or
\* returns after the last element
InsertarLinea(r, fallo) ==
    /\ inv[r].pc = "lineas"
    /\ LET i == [inv[r] EXCEPT !.intentos = @ + 1]
           n == Len(i.productosAgregados) + 1
           producto == i.productos[n]
           args == ArgumentosLinea(i.pedido, producto)
           idLinea == IF esquemaPK THEN 0 ELSE Len(lineas) + 1
           fila == FilaLinea(idLinea, args.pedidoId, args.productoId,
                             args.cantidad)
           agregados == Append(i.productosAgregados, fila)
           rechazada == fallo \/ ~LineaAceptada(i.pedido, producto.producto_id)
           sig == IF rechazada THEN Lanzar(i)
                  ELSE IF n = Len(i.productos) THEN Devolver(i, agregados)
                  ELSE [i EXCEPT !.productosAgregados = agregados]
       IN /\ lineas' = IF rechazada THEN lineas ELSE Append(lineas, fila)
          /\ tablaProductos' =
                IF rechazada THEN tablaProductos
                ELSE ProductosTrasLinea(tablaProductos, producto.producto_id,
                                        producto.cantidad)
          /\ inv' = [inv EXCEPT ![r] = sig]
          /\ pet' = [pet EXCEPT ![r] = Responder(pet[r], sig)]
    /\ UNCHANGED <<esquemaPK, pedidos>>
    /\ UNCHANGED <<varsListado, varsAuth>>
    /\ UNCHANGED <<resProductos, varsCliente>>

\* ------------------------------------------------ the pedidos router (HTTP)
\* `!value` of JavaScript for the header and for one of its fields: undefined
\* and the empty string are falsy
CabeceraFalsy(h) == h = <<>> \/ h = <<"">>

\* const [bearer, token] = authHeader.split(" "): the first two fields, a
\* missing one being undefined (modelled by "", falsy as well); the fields
\* after the second are dropped
Campo(h, n) == IF Len(h) >= n THEN h[n] ELSE ""

\* jwt.verify(token, process.env.JWT_SECRET): "ok" or the name of the error it
\* throws; jsonwebtoken checks the structure and the signature, then nbf, then
\* exp
jwtVerify(token) ==
    IF token \notin Tokens THEN "JsonWebTokenError"
    ELSE IF ~TokenInfo[token].firma THEN "JsonWebTokenError"
    ELSE IF TokenInfo[token].noActivo THEN "NotBeforeError"
    ELSE IF TokenInfo[token].expirado THEN "TokenExpiredError"
    ELSE "ok"

\* the payload jwt.verify returns for a token it accepts
Decoded(token) == [cliente_id |-> TokenInfo[token].cliente_id]

\* a mutated catch: every error of jwt.verify gets the default message
MensajeGenerico(nombre) == "Token no valido"

\* the catch of verificarToken: the message for each error name
MensajeDeError(nombre) ==
    IF nombre = "TokenExpiredError" THEN "Token expirado"
    ELSE IF nombre = "JsonWebTokenError" THEN "Token malformado"
    ELSE IF nombre = "NotBeforeError" THEN "Token no es valido todavia"
    ELSE "Token no valido"

\* a mutated req.user: the alias `id` is read from decoded.id, which the
\* payload does not carry
UsuarioSinAlias(decoded) == [cliente_id |-> decoded.cliente_id, id |-> 0]

\* verificarToken, step 4: req.user (email and nombre are not in the payload
\* that register and login sign, and stay undefined)
UsuarioDeToken(decoded) ==
    [cliente_id |-> decoded.cliente_id, id |-> decoded.cliente_id]

\* the order controller's validation of req.body.productos, steps 1 to 4 of
\* the order workflow: the status it answers, 0 when it goes on to crear
ControladorValida(productos) ==
    IF productos = <<>> THEN 400
    ELSE IF \E k \in 1..Len(productos) : productos[k].cantidad <= 0 THEN 400
    ELSE IF \E k \in 1..Len(productos) :
               productos[k].producto_id \notin DOMAIN tablaProductos THEN 404
    ELSE IF \E k \in 1..Len(productos) :
               productos[k].cantidad > tablaProductos[productos[k].producto_id]
         THEN 409
    ELSE 0

\* the order controller up to its first await: it reads req.body.productos,
\* answers a request it rejects, and else calls crear with req.user.cliente_id.
\* The request and the invocation of crear it leaves behind.
ControladorCrearPedido(p, productos) ==
    LET codigo == ControladorValida(productos)
        leida == [p EXCEPT !.productos = productos]
    IN IF codigo # 0
       THEN [pet |-> [leida EXCEPT !.pc = "respondida", !.status = codigo],
             inv |-> InvLibre]
       ELSE [pet |-> [leida EXCEPT !.pc = "controlador"],
             inv |-> LlamadaCrear(p.user.cliente_id, productos)]

\* router.post('/', verificarToken, pedidosController.crearPedido): a POST
\* reaches the router with its Authorization header
Peticion(r, h) ==
    /\ pet[r].pc = "libre"
    /\ inv[r].pc = "libre"
    /\ pet' = [pet EXCEPT ![r] = [PetLibre EXCEPT !.pc = "recibida",
                                                  !.ruta = "POST /",
                                                  !.authorization = h]]
    /\ UNCHANGED <<esquemaPK, pedidos, lineas, inv, tablaProductos>>
    /\ UNCHANGED <<varsListado, varsAuth>>
    /\ UNCHANGED <<resProductos, varsCliente>>

\* verificarToken(req, res, next), and with next() the synchronous part of the
\* controller, which reads req.body.productos (drawn here, where it is first
\* read) and req.user.cliente_id and calls crear
VerificarToken(r, productos) ==
    /\ pet[r].pc = "recibida"
    /\ LET p == pet[r]
           authHeader == p.authorization
           bearer == Campo(authHeader, 1)
           token == Campo(authHeader, 2)
           Rechazo(m) == [p EXCEPT !.pc = "respondida", !.status = 401,
                                   !.mensaje = m]
           conUsuario == [p EXCEPT !.user = UsuarioDeToken(Decoded(token)),
                                   !.nextLlamadas = @ + 1]
           siguiente == ControladorCrearPedido(conUsuario, productos)
       IN IF CabeceraFalsy(authHeader)
          THEN /\ pet' = [pet EXCEPT ![r] = Rechazo("Falta cabecera Authorization")]
               /\ inv' = inv
          ELSE IF bearer # "Bearer" \/ token = ""
          THEN /\ pet' = [pet EXCEPT ![r] = Rechazo("Formato de token no valido")]
               /\ inv' = inv
          ELSE IF jwtVerify(token) # "ok"
          THEN /\ pet' = [pet EXCEPT ![r] = Rechazo(MensajeDeError(jwtVerify(token)))]
               /\ inv' = inv
          ELSE /\ pet' = [pet EXCEPT ![r] = siguiente.pet]
               /\ inv' = [inv EXCEPT ![r] = siguiente.inv]
    /\ UNCHANGED <<esquemaPK, pedidos, lineas, tablaProductos>>
    /\ UNCHANGED <<varsListado, varsAuth>>
    /\ UNCHANGED <<resProductos, varsCliente>>

\* res.status(...).json({success, message, token, usuario}): token and
\* usuario.id are in the body of the answers of success only
ResponderAut(a, respuesta, token, usuarioId) ==
    [a EXCEPT !.pc = "respondida", !.status = respuesta.status,
              !.message = respuesta.message, !.token = token,
              !.usuarioId = usuarioId]

\* register, up to the answer of buscarPorEmail: the store fails (catch, 500),
\* the email has a row (400), or the password is hashed and crearCliente sends
\* its INSERT
Registrar(r, nombre, email, password, fallo) ==
    /\ aut[r].pc \in {"libre", "respondida"}
    /\ LET a == [AutLibre EXCEPT !.op = "register", !.nombre = nombre,
                                 !.email = email, !.password = password]
           usuarioExistente == buscarPorEmail(email)
       IN aut' = [aut EXCEPT ![r] =
                    IF fallo THEN ResponderAut(a, RespuestaErrorInterno, "", 0)
                    ELSE IF usuarioExistente # SinCliente
                    THEN ResponderAut([a EXCEPT !.usuario = usuarioExistente],
                                      RespuestaDuplicado, "", 0)
                    ELSE [a EXCEPT !.pc = "insertar",
                                   !.hashedPassword = bcryptHash(password)]]
    /\ UNCHANGED <<varsPedidos, varsListado, clientes>>
    /\ UNCHANGED <<resProductos, varsCliente>>

\* register, the INSERT of crearCliente: the store rejects it (UNIQUE, or any
\* failure) and the catch answers 500, or the row is stored and the answer is
\* 201 with a token of its insertId
RegistroInsertar(r, fallo) ==
    /\ aut[r].pc = "insertar"
    /\ LET a == aut[r]
           id == InsertId(clientes)
           fila == FilaCliente(id, a.nombre, a.email, a.hashedPassword)
           rechazada == fallo \/ ~EmailUnico(a.email)
       IN /\ clientes' = IF rechazada THEN clientes ELSE Append(clientes, fila)
          /\ aut' = [aut EXCEPT ![r] =
                       IF rechazada
                       THEN ResponderAut(a, RespuestaErrorInterno, "", 0)
                       ELSE ResponderAut(a, RespuestaRegistrado, jwtSign(id), id)]
    /\ UNCHANGED <<varsPedidos, varsListado>>
    /\ UNCHANGED <<resProductos, varsCliente>>

\* login: the store answers buscarPorEmail and the rest of the handler reads
\* only what that gave it
Login(r, email, password, fallo) ==
    /\ aut[r].pc \in {"libre", "respondida"}
    /\ LET a == [AutLibre EXCEPT !.op = "login", !.email = email,
                                 !.password = password]
           usuario == buscarPorEmail(email)
           conUsuario == [a EXCEPT !.usuario = usuario]
       IN aut' = [aut EXCEPT ![r] =
                    IF fallo THEN ResponderAut(a, RespuestaErrorInterno, "", 0)
                    ELSE IF usuario = SinCliente
                    THEN ResponderAut(a, RespuestaEmailDesconocido, "", 0)
                    ELSE IF ~bcryptCompare(password, usuario.password)
                    THEN ResponderAut(conUsuario, RespuestaPasswordInvalido, "", 0)
                    ELSE ResponderAut(conUsuario, RespuestaLogin,
                                      jwtSign(usuario.id), usuario.id)]
    /\ UNCHANGED <<varsPedidos, varsListado, clientes>>
    /\ UNCHANGED <<resProductos, varsCliente>>

\* the store runs the SELECT of obtenerPedidosDeCliente(clienteId) and the
\* function returns its rows, or the statement fails and the function throws
Listar(clienteId, fallo) ==
    /\ \E filas \in ResultadosSelect(clienteId) :
          consulta' = IF fallo THEN LanzarConsulta(clienteId)
                      ELSE DevolverFilas(clienteId, filas)
    /\ UNCHANGED <<varsPedidos, reloj, varsAuth>>
    /\ UNCHANGED <<resProductos, varsCliente>>

\* a second passes on the clock of the store
Tic ==
    /\ reloj < MaxReloj
    /\ reloj' = reloj + 1
    /\ UNCHANGED <<varsPedidos, consulta, varsAuth>>
    /\ UNCHANGED <<resProductos, varsCliente>>

\* the caller of crear has its result or its error: the invocation is over and
\* another call may follow from the same caller
Recoger(r) ==
    /\ inv[r].pc \in {"devuelto", "lanzado"}
    /\ pet[r].pc = "libre"
    /\ Len(pedidos) < MaxPedidos
    /\ inv' = [inv EXCEPT ![r] = InvLibre]
    /\ UNCHANGED <<esquemaPK, pedidos, lineas, pet, tablaProductos>>
    /\ UNCHANGED <<varsListado, varsAuth>>
    /\ UNCHANGED <<resProductos, varsCliente>>

\* the values of nuevoEstado the callers of actualizarEstado pass: a status
\* of the model's own list, and one of the ENUM of the README's schema
EstadosNuevos == {"pagado", "procesando"}

\* UPDATE pedidos SET estado = ? WHERE id = ?: the table after the statement
FilasConEstado(tabla, idPedido, nuevoEstado) ==
    [k \in 1..Len(tabla) |->
        IF tabla[k].id = idPedido THEN [tabla[k] EXCEPT !.estado = nuevoEstado]
        ELSE tabla[k]]

\* actualizarEstado(idPedido, nuevoEstado): the value is written as it comes
\* (the function returns {id, estado} of its arguments, which is no state)
ActualizarEstado(idPedido, nuevoEstado) ==
    /\ pedidos' = FilasConEstado(pedidos, idPedido, nuevoEstado)
    /\ UNCHANGED <<esquemaPK, lineas, inv, pet, tablaProductos>>
    /\ UNCHANGED <<varsListado, varsAuth>>
    /\ UNCHANGED <<resProductos, varsCliente>>

\* router.get('/', productosController.getProductos) under /api/productos
GetProductos(fallo) ==
    /\ resProductos' = IF fallo THEN RespuestaErrorProductos(MensajeDelStore)
                       ELSE RespuestaProductos(tablaProductos)
    /\ UNCHANGED <<varsPedidos, varsListado, varsAuth, varsCliente>>

\* the app of server.js receives a request for a route of the pedidos router:
\* it goes to the router if the router is mounted, and to the 404 of express
\* if it is not
Despachar(r, ruta, h) ==
    /\ pet[r].pc \in {"libre", "respondida"}
    /\ inv[r].pc = "libre"
    /\ LET p == [PetLibre EXCEPT !.ruta = ruta, !.authorization = h]
       IN pet' = [pet EXCEPT ![r] =
                     IF PrefijoDe(ruta) \in RutasMontadas
                     THEN [p EXCEPT !.pc = "recibida"]
                     ELSE RespuestaSinRuta(p)]
    /\ UNCHANGED <<esquemaPK, pedidos, lineas, inv, tablaProductos>>
    /\ UNCHANGED <<varsListado, varsAuth>>
    /\ UNCHANGED <<resProductos, varsCliente>>

\* the page is loaded: the script starts with a new estado (a request of the
\* page before is no longer awaited), and the handler of DOMContentLoaded
\* calls cargarSesionGuardada and cargarProductos, whose fetch may fail
DOMContentLoaded(fallo) ==
    /\ LET cargada == cargarSesionGuardada(EstadoInicial, localStorage)
       IN /\ estado' = [cargada.estado
                           EXCEPT !.productos = IF fallo THEN <<>>
                                                ELSE Catalogo(tablaProductos)]
          /\ localStorage' = cargada.almacen
          /\ llamada' = [Llamada("DOMContentLoaded", 0, 0, <<>>)
                            EXCEPT !.resultado = cargada.resultado]
    /\ vuelo' = SinVuelo
    /\ UNCHANGED <<varsPedidos, varsListado, varsAuth, resProductos>>

\* what localStorage may hold that guardarSesion did not write: the entries
\* are open to the user and to every script of the origin
TokensAjenos == {"", "t1"}
UsuariosAjenos == {"", "{id:1}", "{id:", "null", "false"}

\* the entries of localStorage are written from outside the client
EscribirAlmacen(token, user) ==
    /\ localStorage' = [token |-> token, user |-> user]
    /\ UNCHANGED <<varsPedidos, varsListado, varsAuth, resProductos, estado,
                   llamada, vuelo>>

\* iniciarSesion and registrarUsuario: guardarSesion(datos.token,
\* datos.usuario) when the answer is ok
IniciarSesion(ok, token, usuario) ==
    /\ estado' = IF ok THEN guardarSesion(estado, token, usuario) ELSE estado
    /\ localStorage' = IF ok THEN AlmacenGuardado(localStorage, token, usuario)
                       ELSE localStorage
    /\ llamada' = Llamada("iniciarSesion", 0, 0, <<>>)
    /\ UNCHANGED <<varsPedidos, varsListado, varsAuth, resProductos, vuelo>>

CerrarSesion ==
    /\ estado' = cerrarSesion(estado)
    /\ localStorage' = SinSesion
    /\ llamada' = Llamada("cerrarSesion", 0, 0, <<>>)
    /\ UNCHANGED <<varsPedidos, varsListado, varsAuth, resProductos, vuelo>>

AgregarAlCarrito(productoId, cantidad) ==
    /\ estado' = agregarAlCarrito(estado, productoId, cantidad)
    /\ llamada' = Llamada("agregarAlCarrito", productoId, cantidad, <<>>)
    /\ UNCHANGED <<varsPedidos, varsListado, varsAuth, resProductos,
                   localStorage, vuelo>>

QuitarDelCarrito(productoId) ==
    /\ estado' = quitarDelCarrito(estado, productoId)
    /\ llamada' = Llamada("quitarDelCarrito", productoId, 0, <<>>)
    /\ UNCHANGED <<varsPedidos, varsListado, varsAuth, resProductos,
                   localStorage, vuelo>>

CambiarCantidad(productoId, nuevaCantidad) ==
    /\ estado' = cambiarCantidad(estado, productoId, nuevaCantidad)
    /\ llamada' = Llamada("cambiarCantidad", productoId, nuevaCantidad, <<>>)
    /\ UNCHANGED <<varsPedidos, varsListado, varsAuth, resProductos,
                   localStorage, vuelo>>

\* the integers the cart functions may be called with: parseInt of the
\* cantidad field, whose min="1" the click handler does not enforce
CantidadesEnteras == {-1, 0, 1, 2}

\* agregarAlCarrito with an integer, followed while no quantity of the cart
\* falls below -MaxNegativas
AgregarEntero(productoId, cantidad) ==
    /\ \A k \in DOMAIN estado.carrito :
           estado.carrito[k].id = productoId =>
               estado.carrito[k].cantidad + cantidad >= -MaxNegativas
    /\ AgregarAlCarrito(productoId, cantidad)

\* crearPedido() of the client up to `await fetch`: the two checks and the
\* body it posts (one request awaits its answer at a time)
CrearPedidoCliente ==
    /\ ~vuelo.activa
    /\ LET envia == estaLogueado(estado) /\ estado.carrito # <<>>
           cuerpo == IF envia THEN ProductosParaPedido(estado.carrito) ELSE <<>>
       IN /\ vuelo' = [activa |-> envia, cuerpo |-> cuerpo]
          /\ llamada' = Llamada("crearPedido", 0, 0, cuerpo)
    /\ UNCHANGED <<varsPedidos, varsListado, varsAuth, resProductos,
                   estado, localStorage>>

\* a mutated crearPedido: the cart is emptied whatever the answer is
VaciarSiempre(e, resultado) == vaciarCarrito(e)

\* crearPedido() of the client after the await: vaciarCarrito() when
\* respuesta.ok, and nothing but an alert for an error status ("error") and
\* for a fetch that rejects ("red")
TrasRespuesta(e, resultado) ==
    IF resultado = "ok" THEN vaciarCarrito(e) ELSE e

\* the answer of the server, or the failure of the request, arrives
RespuestaPedido(resultado) ==
    /\ vuelo.activa
    /\ estado' = TrasRespuesta(estado, resultado)
    /\ vuelo' = SinVuelo
    /\ llamada' = [Llamada("respuestaPedido", 0, 0, vuelo.cuerpo)
                      EXCEPT !.resultado = resultado]
    /\ UNCHANGED <<varsPedidos, varsListado, varsAuth, resProductos,
                   localStorage>>

Next ==
    \/ \E r \in Invs, c \in IdsCliente, ps \in ListasProductos : Llamar(r, c, ps)
    \/ \E r \in Invs, fallo \in BOOLEAN : InsertarCabecera(r, fallo)
    \/ \E r \in Invs, fallo \in BOOLEAN : InsertarLinea(r, fallo)

\* direct calls of the model function crear
Spec == Init /\ [][Next]_vars

\* the `productos` arrays of existing products within their stock, the ones
\* that name a product twice among them
ListasRepetidas ==
    UNION {[1..n -> {[producto_id |-> 1, cantidad |-> 1],
                     [producto_id |-> 2, cantidad |-> 1]}] : n \in 0..MaxLen}

\* the store was created with one of the two schemas the repository
\* documents for pedidos_productos: the one of the README, with
\* PRIMARY KEY (pedido_id, producto_id), or the one of the header of
\* pedidos.model.js, with an AUTO_INCREMENT id
InitEsquema ==
    /\ esquemaPK \in BOOLEAN
    /\ pedidos = <<>>
    /\ lineas = <<>>
    /\ inv = [r \in Invs |-> InvLibre]
    /\ pet = [r \in Invs |-> PetLibre]
    /\ tablaProductos = Stock
    /\ reloj = 0
    /\ consulta = SinConsulta
    /\ clientes = <<>>
    /\ aut = [r \in Invs |-> AutLibre]
    /\ resProductos = SinRespuesta
    /\ estado = EstadoInicial
    /\ localStorage = SinSesion
    /\ llamada = SinLlamada
    /\ vuelo = SinVuelo

NextEsquema ==
    \/ \E r \in Invs, c \in IdsCliente, ps \in ListasRepetidas : Llamar(r, c, ps)
    \/ \E r \in Invs : InsertarCabecera(r, FALSE)
    \/ \E r \in Invs : InsertarLinea(r, FALSE)

\* crear over either schema, with a store that fails no statement but the
\* ones its constraints reject
SpecEsquema == InitEsquema /\ [][NextEsquema]_vars

NextHttp ==
    \/ \E r \in Invs, h \in Cabeceras : Peticion(r, h)
    \/ \E r \in Invs, ps \in ListasProductos : VerificarToken(r, ps)
    \/ \E r \in Invs, fallo \in BOOLEAN : InsertarCabecera(r, fallo)
    \/ \E r \in Invs, fallo \in BOOLEAN : InsertarLinea(r, fallo)

\* requests to the pedidos router
SpecHttp == Init /\ [][NextHttp]_vars

NextListado ==
    \/ \E r \in InvsListado, c \in IdsListado, ps \in ListasListado :
          Llamar(r, c, ps)
    \/ \E r \in InvsListado, fallo \in BOOLEAN : InsertarCabecera(r, fallo)
    \/ \E r \in InvsListado, fallo \in BOOLEAN : InsertarLinea(r, fallo)
    \/ \E r \in InvsListado : Recoger(r)
    \/ Tic
    \/ \E c \in IdsListado, fallo \in BOOLEAN : Listar(c, fallo)

NextAuth ==
    \/ \E r \in Invs, n \in Nombres, e \in Emails, p \in Passwords,
          fallo \in BOOLEAN : Registrar(r, n, e, p, fallo)
    \/ \E r \in Invs, fallo \in BOOLEAN : RegistroInsertar(r, fallo)
    \/ \E r \in Invs, e \in Emails, p \in Passwords, fallo \in BOOLEAN :
          Login(r, e, p, fallo)

\* requests to /api/auth/register and /api/auth/login
SpecAuth == Init /\ [][NextAuth]_vars

NextServidor ==
    \/ \E r \in InvsListado, n \in Nombres, e \in Emails, p \in Passwords,
          fallo \in BOOLEAN : Registrar(r, n, e, p, fallo)
    \/ \E r \in InvsListado, fallo \in BOOLEAN : RegistroInsertar(r, fallo)
    \/ \E r \in InvsListado, e \in Emails, p \in Passwords, fallo \in BOOLEAN :
          Login(r, e, p, fallo)
    \/ \E fallo \in BOOLEAN : GetProductos(fallo)
    \/ \E r \in InvsListado, ruta \in RutasPedidos, h \in CabecerasServidor :
          Despachar(r, ruta, h)

\* requests to the app of server.js, on every path
SpecServidor == Init /\ [][NextServidor]_vars

NextEstados ==
    \/ \E r \in InvsListado, c \in IdsListado, ps \in ListasListado :
          Llamar(r, c, ps)
    \/ \E r \in InvsListado, fallo \in BOOLEAN : InsertarCabecera(r, fallo)
    \/ \E r \in InvsListado, fallo \in BOOLEAN : InsertarLinea(r, fallo)
    \/ \E r \in InvsListado : Recoger(r)
    \/ \E id \in 1..MaxPedidos, e \in EstadosNuevos : ActualizarEstado(id, e)

NextCliente ==
    \/ \E fallo \in BOOLEAN : DOMContentLoaded(fallo)
    \/ \E ok \in BOOLEAN, s \in SesionesCliente : IniciarSesion(ok, s[1], s[2])
    \/ CerrarSesion
    \/ \E id \in ProductosCliente, c \in CantidadesCliente :
          AgregarAlCarrito(id, c)
    \/ \E id \in ProductosCliente : QuitarDelCarrito(id)
    \/ \E id \in ProductosCliente, c \in CantidadesNuevas :
          CambiarCantidad(id, c)
    \/ CrearPedidoCliente
    \/ \E resultado \in ResultadosPedido : RespuestaPedido(resultado)

NextEnteros ==
    \/ DOMContentLoaded(FALSE)
    \/ IniciarSesion(TRUE, "t1", 1)
    \/ \E id \in ProductosCliente, c \in CantidadesEnteras : AgregarEntero(id, c)
    \/ \E id \in ProductosCliente : QuitarDelCarrito(id)
    \/ \E id \in ProductosCliente, c \in CantidadesEnteras :
          CambiarCantidad(id, c)
    \/ CrearPedidoCliente
    \/ \E resultado \in ResultadosPedido : RespuestaPedido(resultado)

\* the cart functions called with any integer
SpecEnteros == Init /\ [][NextEnteros]_vars

\* the client: the page and the calls of its functions
SpecCliente == Init /\ [][NextCliente]_vars

NextSesion ==
    \/ \E fallo \in BOOLEAN : DOMContentLoaded(fallo)
    \/ \E ok \in BOOLEAN, s \in SesionesCliente : IniciarSesion(ok, s[1], s[2])
    \/ CerrarSesion
    \/ \E token \in TokensAjenos, user \in UsuariosAjenos :
          EscribirAlmacen(token, user)

\* the session of the client over a localStorage that others write as well
SpecSesion == Init /\ [][NextSesion]_vars

NextCampos ==
    \/ \E r \in Invs, c \in IdsCliente, ps \in ListasCampos : Llamar(r, c, ps)
    \/ \E r \in Invs, fallo \in BOOLEAN : InsertarCabecera(r, fallo)
    \/ \E r \in Invs, fallo \in BOOLEAN : InsertarLinea(r, fallo)
    \/ DOMContentLoaded(FALSE)
    \/ IniciarSesion(TRUE, "t1", 1)
    \/ AgregarAlCarrito(1, 1)
    \/ CrearPedidoCliente

\* crear is called with lines that carry other fields, and the client sends
\* its cart
SpecCampos == Init /\ [][NextCampos]_vars

\* orders are created and their status is updated
SpecEstados == Init /\ [][NextEstados]_vars

\* orders of several clients are created over time and listed
SpecListado == Init /\ [][NextListado]_vars

\* ------------------------------------------------------------------ claims
\* crear has returned or thrown
Terminada(r) == inv[r].pc \in {"devuelto", "lanzado"}

\* the request names a product that is not in the productos table
NombraInexistente(productos) ==
    \E k \in 1..Len(productos) : productos[k].producto_id \notin DOMAIN Stock

\* the request asks for more units of an existing product than its stock
ExcedeStock(productos) ==
    \E k \in 1..Len(productos) :
        /\ productos[k].producto_id \in DOMAIN Stock
        /\ productos[k].cantidad > Stock[productos[k].producto_id]

\* a non-empty list of existing products, each quantity within the stock
ListaValida(productos) ==
    /\ productos # <<>>
    /\ ~NombraInexistente(productos)
    /\ ~ExcedeStock(productos)

\* the sum of the cantidad fields of the first n elements of a sequence
RECURSIVE SumaHasta(_, _)
SumaHasta(s, n) == IF n = 0 THEN 0 ELSE s[n].cantidad + SumaHasta(s, n - 1)

\* C1: after an invocation of crear has ended, by a return or by a throw, the
\* store holds either the header of that invocation and one line per
\* requested line, or no header (and so no line) of that invocation.
C1_TodoONada ==
    \A r \in Invs :
        Terminada(r) =>
            \/ inv[r].pedido = 0
            \/ Len(LineasDe(inv[r].pedido)) = Len(inv[r].productos)

\* C2: in every state of the store, every row of pedidos has at least one row
\* of pedidos_productos.
C2_PedidoConLineas ==
    \A k \in 1..Len(pedidos) : LineasDe(pedidos[k].id) # <<>>

\* C3: an invocation of crear with an empty `productos` ends in an error and
\* has written no row of pedidos (the kind of the error, EmptyCart, aside).
C3_CarritoVacioRechazado ==
    \A r \in Invs :
        (Terminada(r) /\ inv[r].productos = <<>>) =>
            (inv[r].pc = "lanzado" /\ inv[r].pedido = 0)

\* C4: an invocation of crear that names a product id that does not exist ends
\* in an error and has written no header and no line (the kind of the error,
\* ProductNotFound, aside).
C4_InexistenteRechazado ==
    \A r \in Invs :
        (Terminada(r) /\ NombraInexistente(inv[r].productos)) =>
            (inv[r].pc = "lanzado" /\ inv[r].pedido = 0)

\* C5: an invocation of crear that asks for more units of a product than its
\* current stock ends in an error and has written no header and no line (the
\* kind of the error, InsufficientStock, aside).
C5_SinStockRechazado ==
    \A r \in Invs :
        (Terminada(r) /\ ExcedeStock(inv[r].productos)) =>
            (inv[r].pc = "lanzado" /\ inv[r].pedido = 0)

\* C6: every row of pedidos_productos has cantidad > 0.
C6_CantidadPositiva ==
    \A k \in 1..Len(lineas) : lineas[k].cantidad > 0

\* C7: when crear returns for a non-empty list of existing products with
\* quantities within the stock, the result has as many lines as the request,
\* its total_productos is the sum of the requested quantities, and the rows
\* of pedidos_productos of the returned order are the lines of the result,
\* one per requested line with its product and quantity.
C7_ResultadoCompleto ==
    \A r \in Invs :
        (inv[r].pc = "devuelto" /\ ListaValida(inv[r].productos)) =>
            LET res == inv[r].resultado
                pedidas == inv[r].productos
                guardadas == LineasDe(res.id)
            IN /\ Len(res.productos) = Len(pedidas)
               /\ res.total_productos = SumaHasta(pedidas, Len(pedidas))
               /\ guardadas = res.productos
               /\ res.total_productos = SumaHasta(guardadas, Len(guardadas))
               /\ \A k \in 1..Len(pedidas) :
                    /\ guardadas[k].producto_id = pedidas[k].producto_id
                    /\ guardadas[k].cantidad = pedidas[k].cantidad
                    /\ guardadas[k].pedido_id = res.id

\* C7, its case: a returned order of two lines and four units of one product
C7_Witness ==
    \E r \in Invs :
        /\ inv[r].pc = "devuelto"
        /\ ListaValida(inv[r].productos)
        /\ Len(inv[r].productos) = 2
        /\ inv[r].resultado.total_productos = 4
        /\ Len(LineasDe(inv[r].resultado.id)) = 2

\* the gate has run for the request
PasoPorGate(r) == pet[r].pc \in {"respondida", "controlador"}

\* the header is `Bearer <token>`: the scheme, one space and a non-empty token
FormaBearer(h) == Len(h) = 2 /\ h[1] = "Bearer" /\ h[2] # ""

\* C8: a request whose Authorization header is absent, is not of the form
\* `Bearer <token>`, or carries a token that fails verification is answered
\* 401, next is not called and req.user is not set.
C8_RechazoSinHandler ==
    \A r \in Invs :
        (/\ PasoPorGate(r)
         /\ \/ pet[r].authorization = <<>>
            \/ ~FormaBearer(pet[r].authorization)
            \/ jwtVerify(Campo(pet[r].authorization, 2)) # "ok") =>
            /\ pet[r].status = 401
            /\ pet[r].nextLlamadas = 0
            /\ pet[r].user = SinUsuario

\* jwt.verify was reached and accepted the token of the header
VerificacionExitosa(h) ==
    /\ ~CabeceraFalsy(h)
    /\ Campo(h, 1) = "Bearer"
    /\ Campo(h, 2) \in Tokens
    /\ TokenInfo[Campo(h, 2)].firma
    /\ ~TokenInfo[Campo(h, 2)].noActivo
    /\ ~TokenInfo[Campo(h, 2)].expirado

\* C9: when the verification of the token succeeds, req.user.cliente_id and
\* req.user.id are the cliente_id of the token and next has been called
\* exactly once.
C9_UsuarioDelToken ==
    \A r \in Invs :
        (PasoPorGate(r) /\ VerificacionExitosa(pet[r].authorization)) =>
            /\ pet[r].user.cliente_id = TokenInfo[pet[r].authorization[2]].cliente_id
            /\ pet[r].user.id = TokenInfo[pet[r].authorization[2]].cliente_id
            /\ pet[r].nextLlamadas = 1

\* C9, its case: the gate has let through a request with the token of client 2
C9_Witness ==
    \E r \in Invs :
        /\ PasoPorGate(r)
        /\ pet[r].authorization = <<"Bearer", "t2">>
        /\ pet[r].user.cliente_id = 2
        /\ pet[r].nextLlamadas = 1

\* C10: every row of pedidos was created by a request to the router, and its
\* cliente_id is the cliente_id of the token that request carried.
C10_PedidoDelSujeto ==
    \A k \in 1..Len(pedidos) :
        \E r \in Invs :
            /\ inv[r].pedido = pedidos[k].id
            /\ VerificacionExitosa(pet[r].authorization)
            /\ pedidos[k].cliente_id = TokenInfo[pet[r].authorization[2]].cliente_id

\* C10, its case: two requests with the tokens of two clients have each
\* created an order
C10_Witness ==
    \E r1, r2 \in Invs :
        /\ pet[r1].authorization = <<"Bearer", "t1">>
        /\ pet[r2].authorization = <<"Bearer", "t2">>
        /\ inv[r1].pedido # 0
        /\ inv[r2].pedido # 0
        /\ pedidos[inv[r1].pedido].cliente_id = 1
        /\ pedidos[inv[r2].pedido].cliente_id = 2

\* the rows of pedidos of one client, in insertion order
PedidosDe(clienteId) == SelectSeq(pedidos, LAMBDA f : f.cliente_id = clienteId)

\* C11: when obtenerPedidosDeCliente(c) returns, its rows are exactly the rows
\* of pedidos whose cliente_id is c at the time of the SELECT, each once and
\* none of another client, and no row comes before a row of a later fecha
\* (rows of equal fecha come in the order the store chooses).
C11_ListadoDelCliente ==
    [][(consulta' # consulta /\ consulta'.pc = "devuelto") =>
          LET filas == consulta'.filas
              propias == PedidosDe(consulta'.cliente_id)
          IN /\ Len(filas) = Len(propias)
             /\ \A k \in 1..Len(filas) :
                    /\ filas[k].cliente_id = consulta'.cliente_id
                    /\ \E j \in 1..Len(propias) : propias[j] = filas[k]
             /\ \A j \in 1..Len(propias) :
                    \E k \in 1..Len(filas) : filas[k] = propias[j]
             /\ \A a, b \in 1..Len(filas) :
                    a < b => filas[a].fecha >= filas[b].fecha]_vars

\* C11, its case: client 1 has an order of second 0 and an order of second 1,
\* client 2 has an order, and the listing of client 1 is the later order and
\* then the earlier one
C11_Witness ==
    /\ consulta.pc = "devuelto"
    /\ consulta.cliente_id = 1
    /\ Len(consulta.filas) = 2
    /\ consulta.filas[1].fecha = 1
    /\ consulta.filas[2].fecha = 0
    /\ consulta.filas[1].id > consulta.filas[2].id
    /\ \E k \in 1..Len(pedidos) : pedidos[k].cliente_id = 2

\* C12: a call of obtenerPedidosDeCliente for a client that has no row in
\* pedidos returns the empty array; it throws only the error of a failed
\* statement of the store, never an error of its own.
C12_SinPedidosVacio ==
    (consulta.pc # "libre" /\ PedidosDe(consulta.cliente_id) = <<>>) =>
        \/ consulta.pc = "devuelto" /\ consulta.filas = <<>>
        \/ consulta.pc = "lanzado" /\ consulta.error = "ErrorDelStore"

\* C12, its case: client 1 has orders, client 2 has none, and the listing of
\* client 2 has returned the empty array
C12_Witness ==
    /\ consulta.pc = "devuelto"
    /\ consulta.cliente_id = 2
    /\ consulta.filas = <<>>
    /\ PedidosDe(2) = <<>>
    /\ PedidosDe(1) # <<>>

\* the slot has just answered a request
RecienRespondida(r) == aut'[r] # aut[r] /\ aut'[r].pc = "respondida"

\* the token is accepted by the gate and gives req.user this cliente_id
VerificaComo(token, clienteId) ==
    /\ token \in Tokens
    /\ TokenInfo[token].firma
    /\ ~TokenInfo[token].noActivo
    /\ ~TokenInfo[token].expirado
    /\ TokenInfo[token].cliente_id = clienteId

\* C13: a register that answers 201 has stored the row of its email and its
\* token verifies at the gate to the id of that row; a login with the email
\* and the password of a row that register stored answers 200 (500 if the
\* store fails) with a token that verifies at the gate to the id of that row.
C13_RegistroYLogin ==
    [][\A r \in Invs :
          RecienRespondida(r) =>
             /\ (aut'[r].op = "register" /\ aut'[r].status = 201) =>
                    /\ Len(clientes') = Len(clientes) + 1
                    /\ clientes'[Len(clientes')].email = aut'[r].email
                    /\ clientes'[Len(clientes')].id = aut'[r].usuarioId
                    /\ VerificaComo(aut'[r].token, clientes'[Len(clientes')].id)
             /\ \A k \in 1..Len(clientes) :
                    (/\ aut'[r].op = "login"
                     /\ clientes[k].email = aut'[r].email
                     /\ clientes[k].password = [bcrypt |-> aut'[r].password]) =>
                        /\ aut'[r].status \in {200, 500}
                        /\ aut'[r].status = 200 =>
                              /\ aut'[r].usuarioId = clientes[k].id
                              /\ VerificaComo(aut'[r].token, clientes[k].id)]_vars

\* C13, its case: the second client has registered and has then logged in with
\* the same email and password, and both tokens verify to its id
C13_Witness ==
    \E r1, r2 \in Invs :
        /\ aut[r1].op = "register" /\ aut[r1].status = 201
        /\ aut[r2].op = "login" /\ aut[r2].status = 200
        /\ aut[r2].email = aut[r1].email
        /\ aut[r2].password = aut[r1].password
        /\ aut[r1].usuarioId = 2
        /\ VerificaComo(aut[r1].token, 2)
        /\ VerificaComo(aut[r2].token, 2)

\* login has answered: the email had no row
LoginSinEmail(r) ==
    /\ aut[r].op = "login" /\ aut[r].pc = "respondida"
    /\ aut[r].usuario = SinCliente
    /\ aut[r].status # 500

\* login has answered: the email had a row, of another password
LoginOtraPassword(r) ==
    /\ aut[r].op = "login" /\ aut[r].pc = "respondida"
    /\ aut[r].usuario # SinCliente
    /\ aut[r].usuario.password # [bcrypt |-> aut[r].password]

\* what the client sees of an answer
Visible(r) ==
    [status |-> aut[r].status, message |-> aut[r].message,
     token |-> aut[r].token, usuarioId |-> aut[r].usuarioId]

\* C14: the answer of login to an email that has no row and its answer to an
\* email that has a row with another password are the same: status 401, the
\* same message, no token and no user.
C14_LoginIndistinguible ==
    \A r1, r2 \in Invs :
        (LoginSinEmail(r1) /\ LoginOtraPassword(r2)) =>
            /\ Visible(r1) = Visible(r2)
            /\ aut[r1].status = 401
            /\ aut[r1].token = ""

\* C14, its case: one login for an email that is not registered and one for a
\* registered email with a wrong password have both been answered
C14_Witness ==
    \E r1, r2 \in Invs :
        /\ LoginSinEmail(r1)
        /\ LoginOtraPassword(r2)
        /\ aut[r1].email # aut[r2].email
        /\ aut[r2].status = 401

\* no two rows of the table have the same email
EmailsDistintos(tabla) ==
    \A j, k \in 1..Len(tabla) : j # k => tabla[j].email # tabla[k].email

\* C15: a register for an email that has a row when the request looks it up
\* answers 400 (500 if the store fails) and stores no row; and in every state,
\* also after two registers for one email that both found no row, clientes
\* has at most one row per email.
C15_UnClientePorEmail ==
    [][/\ EmailsDistintos(clientes')
       /\ \A r \in Invs :
            (/\ RecienRespondida(r)
             /\ aut[r].pc # "insertar"
             /\ aut'[r].op = "register"
             /\ \E k \in 1..Len(clientes) : clientes[k].email = aut'[r].email) =>
                /\ aut'[r].status \in {400, 500}
                /\ clientes' = clientes]_vars

\* C15, its case: two registers for one email have both found no row and have
\* both sent their INSERT; one is answered 201, the other is rejected by the
\* store (500), and the table has one row
C15_Witness ==
    \E r1, r2 \in Invs :
        /\ aut[r1].op = "register" /\ aut[r1].status = 201
        /\ aut[r2].op = "register" /\ aut[r2].status = 500
        /\ aut[r2].hashedPassword # SinHash
        /\ aut[r2].email = aut[r1].email
        /\ aut[r2].password # aut[r1].password
        /\ Len(clientes) = 1

\* C16: every row of pedidos_productos has the pedido_id of a row of pedidos
\* that is already stored; the lines an invocation of crear has written carry
\* the id its own header insert returned; an invocation that has no header yet
\* has written no line; and two invocations never share a header id.
C16_CabeceraLuegoLineas ==
    /\ \A k \in 1..Len(lineas) :
          /\ \E j \in 1..Len(pedidos) : pedidos[j].id = lineas[k].pedido_id
          /\ \E r \in Invs : \E n \in 1..Len(inv[r].productosAgregados) :
                inv[r].productosAgregados[n] = lineas[k]
    /\ \A r \in Invs :
          /\ \A n \in 1..Len(inv[r].productosAgregados) :
                /\ inv[r].pedido # 0
                /\ inv[r].productosAgregados[n].pedido_id = inv[r].pedido
          /\ inv[r].pedido # 0 =>
                \E j \in 1..Len(pedidos) :
                    /\ pedidos[j].id = inv[r].pedido
                    /\ pedidos[j].cliente_id = inv[r].cliente_id
    /\ \A r1, r2 \in Invs :
          (r1 # r2 /\ inv[r1].pedido # 0) => inv[r1].pedido # inv[r2].pedido

\* C16, its case: two invocations interleave; the lines of the second order
\* are written around the line of the first
C16_Witness ==
    /\ Len(pedidos) = 2
    /\ Len(lineas) = 3
    /\ lineas[1].pedido_id = 2
    /\ lineas[2].pedido_id = 1
    /\ lineas[3].pedido_id = 2

\* C17: no constraint of the store ties the lines to the stock: the store
\* accepts the next line of every request that has passed the validation,
\* whatever quantity of the product is already committed.  (With the witness:
\* two requests within the stock both commit and the product is oversold.)
C17_LineaValidadaAceptada ==
    \A r \in Invs :
        (pet[r].pc = "controlador" /\ inv[r].pc = "lineas") =>
            ENABLED (InsertarLinea(r, FALSE) /\ Len(lineas') = Len(lineas) + 1)

\* C17, its case: two requests, each for 2 units of product 1 with a stock of
\* 2, have both been answered 201 and 4 units are committed
C17_Witness ==
    \E r1, r2 \in Invs :
        /\ r1 # r2
        /\ pet[r1].status = 201 /\ pet[r2].status = 201
        /\ pet[r1].productos = <<[producto_id |-> 1, cantidad |-> 2]>>
        /\ pet[r2].productos = <<[producto_id |-> 1, cantidad |-> 2]>>
        /\ UnidadesEn(lineas, 1) = 4
        /\ tablaProductos[1] = 2

\* C18: the productos table is in every state what it was before the first
\* invocation of crear.
C18_ProductosIntactos == tablaProductos = Stock

\* C18, its case: one invocation has returned with its lines stored, another
\* has thrown, and the stock of every product is the initial one
C18_Witness ==
    \E r1, r2 \in Invs :
        /\ inv[r1].pc = "devuelto" /\ Len(LineasDe(inv[r1].pedido)) = 2
        /\ inv[r2].pc = "lanzado" /\ Len(LineasDe(inv[r2].pedido)) = 1
        /\ tablaProductos = Stock

\* the rows of an order are the requested lines, one per element
LineasPropias(pedidoId, pedidas) ==
    LET guardadas == LineasDe(pedidoId)
    IN /\ Len(guardadas) = Len(pedidas)
       /\ \A k \in 1..Len(pedidas) :
             /\ guardadas[k].producto_id = pedidas[k].producto_id
             /\ guardadas[k].cantidad = pedidas[k].cantidad

\* C19: two invocations of crear with the same cliente_id and the same
\* `productos` that have both returned have created two rows of pedidos with
\* different ids, and each order has its own rows for all the lines.
C19_SinDeduplicar ==
    \A r1, r2 \in Invs :
        (/\ r1 # r2
         /\ inv[r1].pc = "devuelto" /\ inv[r2].pc = "devuelto"
         /\ inv[r1].cliente_id = inv[r2].cliente_id
         /\ inv[r1].productos = inv[r2].productos) =>
            /\ inv[r1].resultado.id # inv[r2].resultado.id
            /\ Len(pedidos) = 2
            /\ \A r \in {r1, r2} :
                  /\ \E j \in 1..Len(pedidos) : pedidos[j].id = inv[r].resultado.id
                  /\ LineasPropias(inv[r].resultado.id, inv[r].productos)

\* C19, its case: the same two lines are sent twice, the second call before
\* the first has returned, and both calls have returned
C19_Witness ==
    \E r1, r2 \in Invs :
        /\ r1 # r2
        /\ inv[r1].pc = "devuelto" /\ inv[r2].pc = "devuelto"
        /\ inv[r1].cliente_id = inv[r2].cliente_id
        /\ inv[r1].productos = inv[r2].productos
        /\ Len(inv[r1].productos) = 2
        /\ Len(lineas) = 4
        /\ lineas[1].pedido_id # lineas[2].pedido_id

\* C20: an invocation of crear sends each of its statements at most once: the
\* header insert, then one insert per line until one fails.  When a statement
\* fails the invocation throws the error of the store, with no result, and the
\* failed statement is its last; when it returns, every statement was sent once
\* and stored its row.
C20_ErrorSinReintento ==
    \A r \in Invs :
        /\ inv[r].intentos <= 1 + Len(inv[r].productos)
        /\ inv[r].pc = "lanzado" =>
              /\ inv[r].error = "ErrorDelStore"
              /\ inv[r].resultado = SinResultado
              /\ inv[r].intentos =
                    IF inv[r].pedido = 0 THEN 1
                    ELSE 2 + Len(LineasDe(inv[r].pedido))
        /\ inv[r].pc = "devuelto" =>
              /\ inv[r].error = ""
              /\ inv[r].intentos = 1 + Len(inv[r].productos)
              /\ Len(LineasDe(inv[r].pedido)) = Len(inv[r].productos)

\* C20, its case: the insert of the second of two lines has failed; crear has
\* thrown after three statements, with the header and the first line stored
C20_Witness ==
    \E r \in Invs :
        /\ inv[r].pc = "lanzado"
        /\ Len(inv[r].productos) = 2
        /\ inv[r].intentos = 3
        /\ Len(LineasDe(inv[r].pedido)) = 1
        /\ inv[r].resultado = SinResultado

\* C21: no failure response of the API carries the raw message of the store:
\* a store failure is answered with an error status and a generic message
\* only (GET /api/productos, POST /api/auth/register, POST /api/auth/login).
C21_SinMensajeDelStore ==
    /\ resProductos.status >= 400 =>
           /\ resProductos.error # MensajeDelStore
           /\ resProductos.message # MensajeDelStore
    /\ \A r \in Invs :
           aut[r].status >= 400 => aut[r].message # MensajeDelStore

\* C25: a request to POST /api/pedidos or GET /api/pedidos/mis-pedidos with a
\* valid token is taken by the pedidos router, and is never answered by the
\* 404 of a routing miss.
C25_PedidosDespachado ==
    \A r \in Invs :
        (/\ pet[r].ruta \in RutasPedidos
         /\ VerificacionExitosa(pet[r].authorization)
         /\ pet[r].pc = "respondida") => pet[r].status # 404

\* the five statuses of an Order: pending, paid, shipped, delivered, cancelled
EstadosDePedido == {"pendiente", "pagado", "enviado", "entregado", "cancelado"}

\* C23: after any sequence of order creations and status updates every
\* order's status is one of pending, paid, shipped, delivered, cancelled.
C23_EstadoEnLista ==
    \A k \in 1..Len(pedidos) : pedidos[k].estado \in EstadosDePedido

\* the three messages of the catch around jwt.verify
MensajesDeVerificacion ==
    {"Token expirado", "Token malformado", "Token no es valido todavia"}

\* the header has the scheme Bearer and a non-empty token after it
ConEsquemaBearer(h) ==
    ~CabeceraFalsy(h) /\ Campo(h, 1) = "Bearer" /\ Campo(h, 2) # ""

\* C24: the gate answers each cause of failure with its own message, in this
\* order: header absent, header without the scheme Bearer or with an empty
\* token, then the failure of the verification (expired, malformed, not yet
\* valid); the verification runs only for a header that is present and has
\* the scheme and a token.
C24_CausaDistinguible ==
    \A r \in Invs :
        PasoPorGate(r) =>
            LET h == pet[r].authorization
                token == Campo(h, 2)
                m == pet[r].mensaje
            IN /\ CabeceraFalsy(h) =>
                      pet[r].status = 401 /\ m = "Falta cabecera Authorization"
               /\ (~CabeceraFalsy(h) /\ ~ConEsquemaBearer(h)) =>
                      pet[r].status = 401 /\ m = "Formato de token no valido"
               /\ (ConEsquemaBearer(h) /\ ~VerificacionExitosa(h)) =>
                      /\ pet[r].status = 401
                      /\ m \in MensajesDeVerificacion
                      /\ m = "Token expirado" =>
                             token \in Tokens /\ TokenInfo[token].expirado
                      /\ m = "Token no es valido todavia" =>
                             token \in Tokens /\ TokenInfo[token].noActivo
                      /\ m = "Token malformado" =>
                             token \notin Tokens \/ ~TokenInfo[token].firma
               /\ (m \in MensajesDeVerificacion \/ pet[r].user # SinUsuario) =>
                      ConEsquemaBearer(h)

\* C24, its case: requests answered with each of the five messages
C24_Witness ==
    /\ \E r \in Invs : /\ pet[r].pc = "respondida"
                       /\ pet[r].authorization = <<"Bearer", "tExp">>
                       /\ pet[r].mensaje = "Token expirado"
    /\ \E r \in Invs : /\ pet[r].pc = "respondida"
                       /\ pet[r].mensaje \in {"Token malformado",
                                              "Token no es valido todavia",
                                              "Formato de token no valido",
                                              "Falta cabecera Authorization"}

\* the stored value is a bcrypt hash of this secret, and holds no plaintext
HashDe(valor, secreto) == DOMAIN valor = {"bcrypt"} /\ valor.bcrypt = secreto

\* C26: the password register stores is the one-way hash of the submitted
\* secret, no row ever holds a plaintext, and login answers 200 only when the
\* submitted secret matches the hash stored for the email.
C26_SoloElHash ==
    [][/\ \A k \in 1..Len(clientes') :
              \E p \in Passwords : HashDe(clientes'[k].password, p)
       /\ \A r \in Invs :
              RecienRespondida(r) =>
                 /\ (aut'[r].op = "register" /\ aut'[r].status = 201) =>
                        HashDe(clientes'[Len(clientes')].password,
                               aut'[r].password)
                 /\ (aut'[r].op = "login" /\ aut'[r].status = 200) =>
                        \E k \in 1..Len(clientes) :
                            /\ clientes[k].email = aut'[r].email
                            /\ HashDe(clientes[k].password, aut'[r].password)]_vars

\* C26, its case: a client is registered, a login with its password has
\* answered 200 and a login with another password has answered 401
C26_Witness ==
    \E r1, r2 \in Invs :
        /\ Len(clientes) >= 1
        /\ aut[r1].op = "login" /\ aut[r1].status = 200
        /\ aut[r2].op = "login" /\ aut[r2].status = 401
        /\ aut[r2].email = aut[r1].email
        /\ aut[r2].password # aut[r1].password

\* the quantity is a number and is at most the stock
NoExcede(cantidad, stock) == cantidad # NaN /\ cantidad <= stock

\* C27: after any sequence of agregarAlCarrito, cambiarCantidad and
\* quitarDelCarrito calls every cart item's cantidad is at most the stock
\* recorded for that product.
C27_CantidadHastaStock ==
    \A k \in 1..Len(estado.carrito) :
        /\ NoExcede(estado.carrito[k].cantidad, estado.carrito[k].stock)
        /\ NoExcede(estado.carrito[k].cantidad,
                    tablaProductos[estado.carrito[k].id])

\* no two entries of the cart are of the same product
SinRepetidos(carrito) ==
    \A j, k \in 1..Len(carrito) : j # k => carrito[j].id # carrito[k].id

\* C28: the cart holds at most one entry per product id after any sequence
\* of cart operations; agregarAlCarrito for a product already in the cart adds
\* the quantity to the existing entry and creates no second entry.
C28_UnaEntradaPorProducto ==
    [][/\ SinRepetidos(estado'.carrito)
       /\ \A id \in ProductosCliente, c \in CantidadesCliente :
              (/\ AgregarAlCarrito(id, c)
               /\ \E k \in 1..Len(estado.carrito) : estado.carrito[k].id = id) =>
                  /\ Len(estado'.carrito) = Len(estado.carrito)
                  /\ \A k \in 1..Len(estado.carrito) :
                         /\ estado'.carrito[k].id = estado.carrito[k].id
                         /\ estado'.carrito[k].cantidad \in
                                {estado.carrito[k].cantidad,
                                 Suma(estado.carrito[k].cantidad, c)}
                         /\ estado.carrito[k].id # id =>
                                estado'.carrito[k] = estado.carrito[k]]_vars

\* C28, its case: one unit of a product was added to a cart that held one
\* unit of it, and the cart holds one entry of two units
C28_Witness ==
    /\ llamada.op = "agregarAlCarrito"
    /\ llamada.cantidad = 1
    /\ llamada.articulos = 1
    /\ Len(estado.carrito) = 1
    /\ estado.carrito[1].id = llamada.productoId
    /\ estado.carrito[1].cantidad = 2

\* C29: agregarAlCarrito called while no user is logged in (usuario or token
\* missing) leaves the cart unchanged.
C29_SinSesionSinCambio ==
    [][\A id \in ProductosCliente, c \in CantidadesCliente :
          (/\ AgregarAlCarrito(id, c)
           /\ (estado.usuario = 0 \/ estado.token = "")) =>
              estado'.carrito = estado.carrito]_vars

\* C29, its case: with the catalogue loaded and nobody logged in, one unit of
\* a product of the catalogue was asked for
C29_Witness ==
    /\ llamada.op = "agregarAlCarrito"
    /\ ~llamada.logueado
    /\ llamada.cantidad = 1
    /\ Buscar(estado.productos, llamada.productoId) # 0
    /\ estado.carrito = <<>>

\* C30: from any client state, cerrarSesion leaves token and usuario null,
\* the entries token and user removed from localStorage, and the cart empty.
C30_SesionCerrada ==
    llamada.op = "cerrarSesion" =>
        /\ estado.token = ""
        /\ estado.usuario = 0
        /\ localStorage = SinSesion
        /\ estado.carrito = <<>>

\* C30, its case: cerrarSesion was called by a logged-in user with items in
\* the cart
C30_Witness ==
    /\ llamada.op = "cerrarSesion"
    /\ llamada.logueado
    /\ llamada.articulos > 0
    /\ estado.carrito = <<>>

\* the (producto_id, cantidad) pairs of a list of lines or of rows
Pares(lista) ==
    [k \in 1..Len(lista) |-> <<lista[k].producto_id, lista[k].cantidad>>]

\* the header of an order without its id and its date
CabeceraDe(pedidoId) ==
    LET filas == SelectSeq(pedidos, LAMBDA f : f.id = pedidoId)
    IN [k \in 1..Len(filas) |-> <<filas[k].cliente_id, filas[k].estado>>]

\* C22: the rows crear persists depend only on the subject and on the
\* (producto_id, cantidad) pairs of the request: two requests of one subject
\* with the same pairs persist the same header and the same lines, whatever
\* other fields (price, name, stock) their lines carry; and the body the
\* client posts has producto_id and cantidad only, those of its cart items.
C22_SoloIdYCantidad ==
    /\ \A r1, r2 \in Invs :
           (/\ inv[r1].pc = "devuelto" /\ inv[r2].pc = "devuelto"
            /\ inv[r1].cliente_id = inv[r2].cliente_id
            /\ Pares(inv[r1].productos) = Pares(inv[r2].productos)) =>
               /\ CabeceraDe(inv[r1].resultado.id) = CabeceraDe(inv[r2].resultado.id)
               /\ Pares(LineasDe(inv[r1].resultado.id)) =
                     Pares(LineasDe(inv[r2].resultado.id))
               /\ Pares(LineasDe(inv[r1].resultado.id)) = Pares(inv[r1].productos)
    /\ \A k \in 1..Len(lineas) :
           DOMAIN lineas[k] = {"id", "pedido_id", "producto_id", "cantidad"}
    /\ llamada.op = "crearPedido" =>
           /\ \A k \in 1..Len(llamada.cuerpo) :
                  DOMAIN llamada.cuerpo[k] = {"producto_id", "cantidad"}
           /\ llamada.logueado => Len(llamada.cuerpo) = llamada.articulos
           /\ estado.carrito # <<>> =>
                  Pares(llamada.cuerpo) =
                     [k \in 1..Len(estado.carrito) |->
                         <<estado.carrito[k].id, estado.carrito[k].cantidad>>]

\* C22, its case: two requests whose lines differ in the other fields only
\* have both been stored, and the client has posted a cart of one item
C22_Witness ==
    /\ inv[1].pc = "devuelto" /\ inv[2].pc = "devuelto"
    /\ inv[1].productos # inv[2].productos
    /\ Pares(inv[1].productos) = Pares(inv[2].productos)
    /\ Len(LineasDe(inv[1].resultado.id)) = 1
    /\ Len(LineasDe(inv[2].resultado.id)) = 1
    /\ llamada.op = "crearPedido"
    /\ Len(llamada.cuerpo) = 1

\* C31: guardarSesion(token, usuario) followed by a reload of the page and
\* cargarSesionGuardada restores the same token and usuario, and after
\* cerrarSesion a reload restores no session: guardarSesion and cerrarSesion
\* leave the session they are asked for, and the reload leaves in the new
\* estado the session the page had before it.
C31_SesionRestaurada ==
    [][/\ \A s \in SesionesCliente :
              IniciarSesion(TRUE, s[1], s[2]) =>
                  estado'.token = s[1] /\ estado'.usuario = s[2]
       /\ CerrarSesion => estado'.token = "" /\ estado'.usuario = 0
       /\ \A fallo \in BOOLEAN :
              DOMContentLoaded(fallo) =>
                  /\ estado'.token = estado.token
                  /\ estado'.usuario = estado.usuario]_vars

\* C31, its case: the page was reloaded with the second user logged in, and
\* the new estado holds the token and the user that were stored
C31_Witness ==
    /\ llamada.op = "DOMContentLoaded"
    /\ llamada.logueado
    /\ estado.token = "t2"
    /\ estado.usuario = 2
    /\ localStorage = [token |-> "t2", user |-> "{id:2}"]

\* the (id, cantidad) pairs of the items of a cart
ParesDeCarrito(carrito) ==
    [k \in 1..Len(carrito) |-> <<carrito[k].id, carrito[k].cantidad>>]

\* C32: crearPedido of the client empties the cart only when the server
\* answers with a success status; when it answers with an error status or the
\* request fails, crearPedido leaves the cart unchanged.
C32_VaciaSoloSiOk ==
    [][/\ CrearPedidoCliente => estado'.carrito = estado.carrito
       /\ \A resultado \in ResultadosPedido :
              RespuestaPedido(resultado) =>
                  /\ resultado # "ok" => estado'.carrito = estado.carrito
                  /\ estado'.carrito # estado.carrito => resultado = "ok"]_vars

\* C32, its case: the request of a cart has failed and the cart still holds
\* the items that were sent
C32_Witness ==
    /\ llamada.op = "respuestaPedido"
    /\ llamada.resultado \in {"error", "red"}
    /\ llamada.cuerpo # <<>>
    /\ ParesDeCarrito(estado.carrito) = Pares(llamada.cuerpo)

\* the units of a product in a list of (id, cantidad) pairs
RECURSIVE UnidadesDe(_, _)
UnidadesDe(pares, id) ==
    IF pares = <<>> THEN 0
    ELSE (IF pares[1][1] = id /\ pares[1][2] # NaN THEN pares[1][2] ELSE 0)
         + UnidadesDe(Tail(pares), id)

\* C34: a cart change made while a crearPedido request is in flight is not
\* lost: when the request succeeds and the cart, all of numbers, still holds
\* what was sent, what leaves the cart is what was sent in the order, and the units added
\* after the submit are still in the cart.
C34_CambioEnVueloConservado ==
    [][(/\ RespuestaPedido("ok")
        /\ \A k \in 1..Len(estado.carrito) : estado.carrito[k].cantidad # NaN
        /\ \A k \in 1..Len(vuelo.cuerpo) : vuelo.cuerpo[k].cantidad # NaN
        /\ \A id \in ProductosCliente :
               UnidadesDe(ParesDeCarrito(estado.carrito), id) >=
                  UnidadesDe(Pares(vuelo.cuerpo), id)) =>
          \A id \in ProductosCliente :
              UnidadesDe(ParesDeCarrito(estado'.carrito), id) =
                 UnidadesDe(ParesDeCarrito(estado.carrito), id)
                 - UnidadesDe(Pares(vuelo.cuerpo), id)]_vars

\* C35: whenever no user is logged in (usuario or token missing) the cart is
\* empty, after any sequence of login, register, logout, session restore and
\* cart operations.
C35_SinSesionCarritoVacio ==
    (estado.usuario \in {0, Falso} \/ estado.token = "") => estado.carrito = <<>>

\* C35, its case: a user with two items in the cart has logged out, and
\* nobody is logged in
C35_Witness ==
    /\ llamada.op = "cerrarSesion"
    /\ llamada.articulos = 2
    /\ estado.usuario = 0 /\ estado.token = ""
    /\ estado.productos # <<>>

\* C36: after any sequence of guardarSesion, cerrarSesion and
\* cargarSesionGuardada, whatever localStorage holds (one entry only, a user
\* entry that cannot be parsed), the token and the usuario of estado are both
\* set or both null, and a restore that fails leaves the client logged out
\* and both entries removed.
C36_SesionEntera ==
    [][/\ \/ estado'.token # "" /\ estado'.usuario > 0
          \/ estado'.token = "" /\ estado'.usuario = 0
       /\ \A fallo \in BOOLEAN :
              (DOMContentLoaded(fallo) /\ llamada'.resultado = "capturado") =>
                  /\ estado'.token = "" /\ estado'.usuario = 0
                  /\ localStorage' = SinSesion]_vars

\* C33: every item of the cart has a cantidad of at least 1, and so has every
\* line of the body that crearPedido posts, whatever integers the cart
\* functions were called with
C33_CantidadPositiva ==
    /\ \A k \in DOMAIN estado.carrito : estado.carrito[k].cantidad >= 1
    /\ \A k \in DOMAIN vuelo.cuerpo : vuelo.cuerpo[k].cantidad >= 1

\* the request names the same product in more than one line
NombraRepetido(productos) ==
    \E j, k \in 1..Len(productos) :
        j # k /\ productos[j].producto_id = productos[k].producto_id

\* C37: after an invocation of crear whose `productos` names the same product
\* in more than one line has ended, the store holds one line of its order per
\* requested line, or neither the header nor a line of it; it never holds an
\* order with only some of the requested lines.
C37_RepetidoTodoONada ==
    \A r \in Invs :
        (Terminada(r) /\ NombraRepetido(inv[r].productos)) =>
            \/ Len(LineasDe(inv[r].pedido)) = Len(inv[r].productos)
            \/ /\ LineasDe(inv[r].pedido) = <<>>
               /\ \A k \in 1..Len(pedidos) : pedidos[k].id # inv[r].pedido

====
